---------------------------- MODULE Spec2Model ----------------------------
(***************************************************************************)
(* Turbo-Bucketizer C++17: the bucket engine (src/src/bucket_engine.cpp),  *)
(* its configuration (tb::Config in src/CHANGELOG.md, lines 13-44), the    *)
(* statistics computer (src/src/stats.cpp), the dotted-quad parser         *)
(* (src/src/utils.cpp) and the command line (src/apps/tb_cli.cpp).         *)
(*                                                                         *)
(* Number representation.  TLC's integers stop at 2^31 - 1, so the 32-bit  *)
(* and 64-bit unsigned values of the program are kept at their true width  *)
(* as tuples of 16-bit limbs, most significant limb first:                 *)
(*     std::uint32_t   <<hi, lo>>            value hi*2^16 + lo            *)
(*     std::uint64_t   <<w3, w2, w1, w0>>    value sum of w_i * 2^(16 i)   *)
(* (std::size_t is the 64-bit type of an LP64 build).  Histogram counts    *)
(* and vector lengths, which the bounds keep small, are plain naturals.    *)
(***************************************************************************)
EXTENDS Integers, Sequences, FiniteSets, TLC

VARIABLES
    cfg,        \* BucketEngine::cfg_ : [a, b : uint32, k : unsigned]
    pc,         \* "idle", or "range_loop" inside distribution(start, end)
    last,       \* the last completed call: [op, arg, status, ret]
    rng,        \* frame of the running distribution(start, end)
    hist,       \* the histogram handed to compute_stats
    remembered, \* observer: an earlier completed call of this engine, and
                \* whether a different call completed since
    line,       \* the text handed to parse_ipv4, a sequence of characters
    argv,       \* the arguments of the command line, after the program name
    opt         \* the command line's Options as parsed so far

vars == <<cfg, pc, last, rng, hist, remembered, line, argv, opt>>

-----------------------------------------------------------------------------
(* Limb arithmetic                                                         *)

W == 2^16

Hi(u) == u[1]
Lo(u) == u[2]

\* limb i of a 64-bit value counted from the least significant (0..3);
\* limbs beyond the top are zero
Limb(u, i) == IF i \in 0..3 THEN u[4 - i] ELSE 0

\* the full 32-bit product of two 16-bit limbs.  q is split in bytes so
\* that no intermediate leaves TLC's integer range.
Mul16x16(p, q) ==
    LET p1 == p * (q % 256)
        p2 == p * (q \div 256)
        s  == (p2 % 256) * 256 + (p1 % W)
    IN  << (p2 \div 256) + (p1 \div W) + (s \div W), s % W >>

\* static_cast<std::uint64_t>(x) of a 32-bit x
Widen(x) == <<0, 0, Hi(x), Lo(x)>>

\* static_cast<std::uint32_t>(u) of a 64-bit u: the low 32 bits
Trunc32(u) == <<u[3], u[4]>>

\* uint64 a * uint64 x + uint64 b, for 32-bit a, x, b widened to 64 bits
\* (the sum is below 2^64, so the 64-bit arithmetic itself never wraps)
MulAdd64(a, x, b) ==
    LET P0 == Mul16x16(Lo(a), Lo(x))
        P1 == Mul16x16(Lo(a), Hi(x))
        P2 == Mul16x16(Hi(a), Lo(x))
        P3 == Mul16x16(Hi(a), Hi(x))
        s0 == Lo(P0) + Lo(b)
        s1 == Hi(P0) + Lo(P1) + Lo(P2) + Hi(b) + (s0 \div W)
        s2 == Hi(P1) + Hi(P2) + Lo(P3) + (s1 \div W)
        s3 == Hi(P3) + (s2 \div W)
    IN  << s3 % W, s2 % W, s1 % W, s0 % W >>

\* u >> s on 64 bits, 0 <= s < 64
Shr64(u, s) ==
    LET q == s \div 16
        r == s % 16
        L(i) == (Limb(u, i + q) \div (2^r))
                  + (Limb(u, i + q + 1) % (2^r)) * (2^(16 - r))
    IN  << L(3) % W, L(2) % W, L(1) % W, L(0) % W >>

\* 1ULL << e, 0 <= e < 64
Shl1(e) == [i \in 1..4 |-> IF 4 - i = e \div 16 THEN 2^(e % 16) ELSE 0]

\* u < v on tuples of limbs of the same length (lexicographic from the top)
RECURSIVE LtLimbs(_, _)
LtLimbs(u, v) ==
    IF Len(u) = 0 THEN FALSE
    ELSE IF Head(u) # Head(v) THEN Head(u) < Head(v)
    ELSE LtLimbs(Tail(u), Tail(v))

Lt64(u, v) == LtLimbs(u, v)
Le32(u, v) == ~LtLimbs(v, u)

\* ++v on 64 bits
Inc64(u) ==
    LET s0 == u[4] + 1
        s1 == u[3] + (s0 \div W)
        s2 == u[2] + (s1 \div W)
        s3 == u[1] + (s2 \div W)
    IN  << s3 % W, s2 % W, s1 % W, s0 % W >>

\* a small natural as std::size_t, and back
FromNat(n) == <<0, 0, n \div W, n % W>>
ToNat(u)   == u[3] * W + u[4]

-----------------------------------------------------------------------------
(* tb::Config and the bucket engine                                        *)

WordBits == 32

\* Config::bucket_count(): 2^k, clamped to 2^32 for k >= 32 (a std::size_t)
bucket_count(c) ==
    IF c.k >= WordBits THEN Shl1(WordBits) ELSE Shl1(c.k)

\* bug variant of bucket_from_y: the low k bits of y instead of the top k
bucket_from_y_low(y, k) ==
    IF k = 0 THEN <<0, 0>>
    ELSE IF k >= WordBits THEN y
    ELSE IF k <= 16 THEN <<0, Lo(y) % (2^k)>>
    ELSE <<Hi(y) % (2^(k - 16)), Lo(y)>>

\* bug variant of bucket_from_y: no k = 0 case and the shift done on 32
\* bits, where a shift by 32 leaves y as it is (the count taken modulo 32)
bucket_from_y_shift32(y, k) ==
    IF k >= WordBits THEN y
    ELSE Trunc32(Shr64(Widen(y), (WordBits - k) % WordBits))

\* bug variant of bucket_from_y: the shift forgotten
bucket_from_y_noshift(y, k) ==
    IF k = 0 THEN <<0, 0>> ELSE y

\* bucket_from_y: the bucket index from the high bits of y
bucket_from_y(y, k) ==
    IF k = 0 THEN <<0, 0>>
    ELSE IF k >= WordBits THEN y
    ELSE Trunc32(Shr64(Widen(y), WordBits - k))

\* bug variant of bucket_index: the lowest bit of the multiplier is dropped
bucket_index_evenmul(c, ip) ==
    LET a == <<Hi(c.a), Lo(c.a) - (Lo(c.a) % 2)>>
        y == Trunc32(MulAdd64(a, ip, c.b))
    IN  bucket_from_y(y, c.k)

\* BucketEngine::bucket_index: y = a*ip + b on 64 bits, cut to 32 bits
bucket_index(c, ip) ==
    LET y == Trunc32(MulAdd64(c.a, ip, c.b))
    IN  bucket_from_y(y, c.k)

\* bug variant of bucketize: each index inserted at the front
RECURSIVE bucketize_front(_, _)
bucketize_front(c, ips) ==
    IF ips = <<>> THEN <<>>
    ELSE bucketize_front(c, Tail(ips)) \o <<bucket_index(c, Head(ips))>>

\* BucketEngine::bucketize: push_back(bucket_index(ip)) for each ip in order
RECURSIVE bucketize(_, _)
bucketize(c, ips) ==
    IF ips = <<>> THEN <<>>
    ELSE <<bucket_index(c, Head(ips))>> \o bucketize(c, Tail(ips))

\* std::vector<std::size_t> counts(m, 0), indexed from 0
ZeroCounts(m) == [i \in 0..(ToNat(m) - 1) |-> 0]

\* counts.size()
Size(counts) == Cardinality(DOMAIN counts)

\* bug variant of the loop body: the bound check off by one,
\*     if (b + 1 < counts.size()) counts[b] += 1;
CountInto_offbyone(counts, b) ==
    IF Lt64(Inc64(Widen(b)), FromNat(Size(counts)))
    THEN [counts EXCEPT ![ToNat(Widen(b))] = @ + 1]
    ELSE counts

\* the loop body shared by both distribution overloads:
\*     if (b < counts.size()) counts[b] += 1;
CountInto(counts, b) ==
    IF Lt64(Widen(b), FromNat(Size(counts)))
    THEN [counts EXCEPT ![ToNat(Widen(b))] = @ + 1]
    ELSE counts

\* the for loop of distribution(ips) over the rest of the dataset
RECURSIVE CountAll(_, _, _)
CountAll(c, counts, ips) ==
    IF ips = <<>> THEN counts
    ELSE CountAll(c, CountInto(counts, bucket_index(c, Head(ips))), Tail(ips))

\* BucketEngine::distribution(const std::vector<IPv4>&)
distribution(c, ips) ==
    LET m      == bucket_count(c)
        counts == ZeroCounts(m)
    IN  IF m = <<0, 0, 0, 0>> THEN counts ELSE CountAll(c, counts, ips)

\* bug variant of the loop of distribution(start, end): v += 2
RECURSIVE RangeLoop_stride2(_, _, _, _)
RangeLoop_stride2(c, v, end, counts) ==
    IF Lt64(v, Widen(end))
    THEN RangeLoop_stride2(c, Inc64(Inc64(v)), end,
                           CountInto(counts, bucket_index(c, Trunc32(v))))
    ELSE counts

\* the loop of distribution(start, end) from the 64-bit counter v on:
\*     for (v = start; v < end; ++v) count bucket_index(v)
RECURSIVE RangeLoop(_, _, _, _)
RangeLoop(c, v, end, counts) ==
    IF Lt64(v, Widen(end))
    THEN RangeLoop(c, Inc64(v), end,
                   CountInto(counts, bucket_index(c, Trunc32(v))))
    ELSE counts

\* BucketEngine::distribution(IPv4 start, IPv4 end) as a function of its
\* arguments
distribution_range(c, start, end) ==
    LET m      == bucket_count(c)
        counts == ZeroCounts(m)
    IN  IF m = <<0, 0, 0, 0>> \/ Le32(end, start) THEN counts
        ELSE RangeLoop(c, Widen(start), end, counts)

-----------------------------------------------------------------------------
(* double and long double arithmetic of compute_stats                      *)
(*                                                                         *)
(* A floating-point value is modelled by the real number it approximates:  *)
(* a rational <<num, den>> in lowest terms with den > 0.  The non-finite   *)
(* values a division by zero or a square root of a negative produces are   *)
(* the tuples with den = 0: NaN, PosInf, NegInf.  An irrational square     *)
(* root is kept symbolically as <<num, den, 2>>, the principal root of     *)
(* num/den.  Rounding is not modelled.                                     *)

NaN    == <<0, 0>>
PosInf == <<1, 0>>
NegInf == <<-1, 0>>

RECURSIVE GCD(_, _)
GCD(x, y) == IF y = 0 THEN x ELSE GCD(y, x % y)

Abs(x) == IF x < 0 THEN -x ELSE x

\* the rational n/d in lowest terms, d # 0
Rat(n, d) ==
    LET g == GCD(Abs(n), Abs(d))
        s == IF d < 0 THEN -1 ELSE 1
    IN  << (s * n) \div g, (s * d) \div g >>

\* static_cast<double>(n) of an integer
FromInt(n) == <<n, 1>>

IsInf(x)    == x = PosInf \/ x = NegInf

\* -1, 0 or 1
Sign(x) == IF x[1] > 0 THEN 1 ELSE IF x[1] < 0 THEN -1 ELSE 0

InfOf(s) == IF s < 0 THEN NegInf ELSE PosInf

FNeg(x) == <<-x[1], x[2]>>

FAdd(x, y) ==
    IF x = NaN \/ y = NaN THEN NaN
    ELSE IF IsInf(x) /\ IsInf(y) THEN (IF x = y THEN x ELSE NaN)
    ELSE IF IsInf(x) THEN x
    ELSE IF IsInf(y) THEN y
    ELSE Rat(x[1] * y[2] + y[1] * x[2], x[2] * y[2])

FSub(x, y) == FAdd(x, FNeg(y))

FMul(x, y) ==
    IF x = NaN \/ y = NaN THEN NaN
    ELSE IF IsInf(x) \/ IsInf(y)
         THEN (IF Sign(x) * Sign(y) = 0 THEN NaN ELSE InfOf(Sign(x) * Sign(y)))
    ELSE Rat(x[1] * y[1], x[2] * y[2])

FDiv(x, y) ==
    IF x = NaN \/ y = NaN THEN NaN
    ELSE IF IsInf(x) THEN (IF IsInf(y) THEN NaN
                           ELSE InfOf(Sign(x) * (IF Sign(y) < 0 THEN -1 ELSE 1)))
    ELSE IF IsInf(y) THEN <<0, 1>>
    ELSE IF y[1] = 0 THEN (IF x[1] = 0 THEN NaN ELSE InfOf(Sign(x)))
    ELSE Rat(x[1] * y[2], x[2] * y[1])

\* x < y; every comparison with NaN is false
FLt(x, y) ==
    IF x = NaN \/ y = NaN THEN FALSE
    ELSE IF x = y THEN FALSE
    ELSE IF x = NegInf \/ y = PosInf THEN TRUE
    ELSE IF x = PosInf \/ y = NegInf THEN FALSE
    ELSE x[1] * y[2] < y[1] * x[2]

\* std::abs
FAbs(x) == <<Abs(x[1]), x[2]>>

\* std::max(x, y): (x < y) ? y : x
FMax(x, y) == IF FLt(x, y) THEN y ELSE x

\* the natural whose square is n, or -1 when n is no perfect square
IntRoot(n) ==
    IF \E r \in 0..n : r * r = n THEN CHOOSE r \in 0..n : r * r = n ELSE -1

\* std::sqrt: NaN below zero; the exact root when it is rational; otherwise
\* the principal (non-negative) root, kept symbolically
FSqrt(x) ==
    IF x = NaN \/ x = NegInf THEN NaN
    ELSE IF x = PosInf THEN PosInf
    ELSE IF x[1] < 0 THEN NaN
    ELSE IF IntRoot(x[1]) >= 0 /\ IntRoot(x[2]) >= 0
         THEN <<IntRoot(x[1]), IntRoot(x[2])>>
    ELSE <<x[1], x[2], 2>>

-----------------------------------------------------------------------------
(* compute_stats                                                           *)

\* StatsResult r{}: every member at its default
StatsResult ==
    [sample_count |-> 0, bucket_count |-> 0, mean |-> <<0, 1>>,
     stddev |-> <<0, 1>>, chi2 |-> <<0, 1>>, uniformity |-> <<0, 1>>]

\* bug variant of the accumulation: it starts at the second element
RECURSIVE Accumulate_fromsecond(_, _)
Accumulate_fromsecond(counts, i) ==
    IF i + 1 >= Size(counts) THEN 0
    ELSE counts[i + 1] + Accumulate_fromsecond(counts, i + 1)

\* std::accumulate(counts.begin(), counts.end(), std::size_t{0}), summing
\* counts[i], counts[i+1], ... (the bounds keep the sum far below 2^64)
RECURSIVE Accumulate(_, _)
Accumulate(counts, i) ==
    IF i >= Size(counts) THEN 0 ELSE counts[i] + Accumulate(counts, i + 1)

\* bug variant of the variance loop: the mean is not subtracted
RECURSIVE SumSq_raw(_, _, _)
SumSq_raw(counts, i, mean) ==
    IF i >= Size(counts) THEN <<0, 1>>
    ELSE LET d == FromInt(counts[i])
         IN  FAdd(FMul(d, d), SumSq_raw(counts, i + 1, mean))

\* the variance loop: acc += d * d with d = c - mean
RECURSIVE SumSq(_, _, _)
SumSq(counts, i, mean) ==
    IF i >= Size(counts) THEN <<0, 1>>
    ELSE LET d == FSub(FromInt(counts[i]), mean)
         IN  FAdd(FMul(d, d), SumSq(counts, i + 1, mean))

\* the chi-square loop: chi += (diff * diff) / mean with diff = c - mean
RECURSIVE SumChi(_, _, _)
SumChi(counts, i, mean) ==
    IF i >= Size(counts) THEN <<0, 1>>
    ELSE LET diff == FSub(FromInt(counts[i]), mean)
         IN  FAdd(FDiv(FMul(diff, diff), mean), SumChi(counts, i + 1, mean))

\* std::minmax_element, dereferenced
MinCount(counts) == CHOOSE c \in {counts[i] : i \in DOMAIN counts} :
                        \A i \in DOMAIN counts : c <= counts[i]
MaxCount(counts) == CHOOSE c \in {counts[i] : i \in DOMAIN counts} :
                        \A i \in DOMAIN counts : c >= counts[i]

\* bug variant of the uniformity block: the clamp at 0 is missing
Uniformity_noclamp(counts, mean) ==
    LET max_dev == FMax(FAbs(FSub(FromInt(MaxCount(counts)), mean)),
                        FAbs(FSub(FromInt(MinCount(counts)), mean)))
        u0 == IF FLt(<<0, 1>>, mean)
              THEN FSub(<<1, 1>>, FDiv(max_dev, mean))
              ELSE <<1, 1>>
        u2 == IF FLt(<<1, 1>>, u0) THEN <<1, 1>> ELSE u0
    IN  FMul(u2, <<100, 1>>)

\* bug variant of the uniformity block: only the largest count is looked at
Uniformity_maxonly(counts, mean) ==
    LET max_dev == FAbs(FSub(FromInt(MaxCount(counts)), mean))
        u0 == IF FLt(<<0, 1>>, mean)
              THEN FSub(<<1, 1>>, FDiv(max_dev, mean))
              ELSE <<1, 1>>
        u1 == IF FLt(u0, <<0, 1>>) THEN <<0, 1>> ELSE u0
        u2 == IF FLt(<<1, 1>>, u1) THEN <<1, 1>> ELSE u1
    IN  FMul(u2, <<100, 1>>)

\* the uniformity block
Uniformity(counts, mean) ==
    LET max_dev == FMax(FAbs(FSub(FromInt(MaxCount(counts)), mean)),
                        FAbs(FSub(FromInt(MinCount(counts)), mean)))
        u0 == IF FLt(<<0, 1>>, mean)
              THEN FSub(<<1, 1>>, FDiv(max_dev, mean))
              ELSE <<1, 1>>
        u1 == IF FLt(u0, <<0, 1>>) THEN <<0, 1>> ELSE u0
        u2 == IF FLt(<<1, 1>>, u1) THEN <<1, 1>> ELSE u1
    IN  FMul(u2, <<100, 1>>)

\* bug variant of the early return: only the empty histogram is caught
Degenerate_nobuckets(m, n) == m = 0

\* the early return for no buckets or no samples
Degenerate(m, n) == m = 0 \/ n = 0

\* bug variant of compute_stats: the sample variance, divisor m - 1
compute_stats_sample(counts) ==
    LET m  == Size(counts)
        n  == Accumulate(counts, 0)
        r0 == [StatsResult EXCEPT !.bucket_count = m, !.sample_count = n]
    IN  IF Degenerate(m, n) THEN r0
        ELSE
          LET mean == FDiv(FromInt(n), FromInt(m))
              acc  == SumSq(counts, 0, mean)
              var  == FDiv(acc, FromInt(m - 1))
              chi  == SumChi(counts, 0, mean)
          IN  [r0 EXCEPT !.mean = mean,
                         !.stddev = FSqrt(var),
                         !.chi2 = chi,
                         !.uniformity = Uniformity(counts, mean)]

compute_stats(counts) ==
    LET m  == Size(counts)
        n  == Accumulate(counts, 0)
        r0 == [StatsResult EXCEPT !.bucket_count = m, !.sample_count = n]
    IN  IF Degenerate(m, n) THEN r0
        ELSE
          LET mean == FDiv(FromInt(n), FromInt(m))
              acc  == SumSq(counts, 0, mean)
              var  == FDiv(acc, FromInt(m))
              chi  == SumChi(counts, 0, mean)
          IN  [r0 EXCEPT !.mean = mean,
                         !.stddev = FSqrt(var),
                         !.chi2 = chi,
                         !.uniformity = Uniformity(counts, mean)]

-----------------------------------------------------------------------------
(* parse_ipv4 (src/src/utils.cpp).  A std::string is a sequence of         *)
(* one-character strings.                                                  *)

\* the digits of std::stoull, by value, in lower and in upper case
Digits == <<"0", "1", "2", "3", "4", "5", "6", "7", "8", "9",
            "a", "b", "c", "d", "e", "f">>
UpperDigits == <<"0", "1", "2", "3", "4", "5", "6", "7", "8", "9",
                 "A", "B", "C", "D", "E", "F">>

\* a digit of the given base (10 or 16)
IsDigit(c, base) ==
    \E i \in 1..base : Digits[i] = c \/ UpperDigits[i] = c
DigitVal(c) ==
    (CHOOSE i \in 1..Len(Digits) : Digits[i] = c \/ UpperDigits[i] = c) - 1

\* std::isspace, which std::stoull skips at the front
IsSpace(c) == c \in {" ", "\t", "\n", "\r"}

\* first position at or after pos that holds the delimiter '.', or the end
RECURSIVE TokenEnd(_, _)
TokenEnd(str, pos) ==
    IF pos > Len(str) \/ str[pos] = "." THEN pos ELSE TokenEnd(str, pos + 1)

\* std::getline(iss, token, '.') with the stream at pos: it fails when no
\* character is left; otherwise the token runs up to the next delimiter,
\* which is taken out of the stream, or up to the end
getline(str, pos) ==
    LET e == TokenEnd(str, pos)
    IN  [ok    |-> pos <= Len(str),
         token |-> SubSeq(str, pos, e - 1),
         pos   |-> IF e > Len(str) THEN Len(str) + 1 ELSE e + 1]

\* first position at or after i that holds no white space
RECURSIVE SkipSpace(_, _)
SkipSpace(t, i) ==
    IF i <= Len(t) /\ IsSpace(t[i]) THEN SkipSpace(t, i + 1) ELSE i

\* first position at or after i that holds no digit of the base
RECURSIVE DigitsEnd(_, _, _)
DigitsEnd(t, i, base) ==
    IF i <= Len(t) /\ IsDigit(t[i], base) THEN DigitsEnd(t, i + 1, base)
    ELSE i

\* u * base + d on 64 bits, and whether it went beyond them
TimesBasePlus(u, base, d) ==
    LET t0 == u[4] * base + d
        t1 == u[3] * base + (t0 \div W)
        t2 == u[2] * base + (t1 \div W)
        t3 == u[1] * base + (t2 \div W)
    IN  [over |-> t3 \div W > 0,
         v    |-> << t3 % W, t2 % W, t1 % W, t0 % W >>]

\* the value of the digits t[i .. e-1], most significant first
RECURSIVE DigitsValue(_, _, _, _, _)
DigitsValue(t, i, e, base, acc) ==
    IF i >= e THEN [over |-> FALSE, v |-> acc]
    ELSE LET n == TimesBasePlus(acc, base, DigitVal(t[i]))
         IN  IF n.over THEN [over |-> TRUE, v |-> acc]
             ELSE DigitsValue(t, i + 1, e, base, n.v)

\* -u on 64 bits
Neg64(u) == Inc64(<< W - 1 - u[1], W - 1 - u[2], W - 1 - u[3], W - 1 - u[4] >>)

\* std::stoull(str, &pos, base), base 10 or 16: leading white space is
\* skipped, one sign is taken, in base 16 a 0x or 0X in front of a digit is
\* skipped, then comes the longest run of digits; no digit, or a value
\* beyond 64 bits, throws; a minus sign negates on 64 bits; what follows
\* the digits is left unread (pos is the number of characters read)
stoull_base(token, base) ==
    LET i0  == SkipSpace(token, 1)
        sgn == i0 <= Len(token) /\ token[i0] \in {"+", "-"}
        neg == sgn /\ token[i0] = "-"
        i1  == IF sgn THEN i0 + 1 ELSE i0
        pfx == /\ base = 16
               /\ i1 + 2 <= Len(token)
               /\ token[i1] = "0"
               /\ token[i1 + 1] \in {"x", "X"}
               /\ IsDigit(token[i1 + 2], 16)
        i2  == IF pfx THEN i1 + 2 ELSE i1
        i3  == DigitsEnd(token, i2, base)
        mag == DigitsValue(token, i2, i3, base, <<0, 0, 0, 0>>)
    IN  [ok  |-> i3 > i2 /\ ~mag.over,
         v   |-> IF neg THEN Neg64(mag.v) ELSE mag.v,
         pos |-> i3 - 1]

\* std::stoull(token): base 10, pos not asked for
stoull(token) == stoull_base(token, 10)

\* (u << sh) on 32 bits, 0 <= sh < 32
Shl32(u, sh) ==
    IF sh >= 16 THEN << (Lo(u) * 2^(sh - 16)) % W, 0 >>
    ELSE << (Hi(u) * 2^sh + (Lo(u) * 2^sh) \div W) % W, (Lo(u) * 2^sh) % W >>

\* x | y on 16-bit limbs, bit by bit
RECURSIVE Or16(_, _)
Or16(x, y) ==
    IF x = 0 THEN y
    ELSE IF y = 0 THEN x
    ELSE (IF x % 2 = 1 \/ y % 2 = 1 THEN 1 ELSE 0)
           + 2 * Or16(x \div 2, y \div 2)

Or32(u, v) == << Or16(Hi(u), Hi(v)), Or16(Lo(u), Lo(v)) >>

\* bug variant of the return expression: the first octet in the low byte
Combine_lowfirst(parts) ==
    Or32(Or32(Shl32(parts[4], 24), Shl32(parts[3], 16)),
         Or32(Shl32(parts[2], 8), parts[1]))

\* (parts[0] << 24) | (parts[1] << 16) | (parts[2] << 8) | parts[3]
Combine(parts) ==
    Or32(Or32(Or32(Shl32(parts[1], 24), Shl32(parts[2], 16)),
              Shl32(parts[3], 8)),
         parts[4])

Threw      == [status |-> "thrown", ret |-> <<>>]
Gave(ret)  == [status |-> "returned", ret |-> ret]

\* the while loop of parse_ipv4 and what follows it; parts holds the
\* idx octets stored so far
RECURSIVE ParseLoop(_, _, _)
ParseLoop(str, pos, parts) ==
    LET idx == Len(parts)
        g   == getline(str, pos)
        n   == stoull(g.token)
    IN  IF ~g.ok
        THEN (IF idx # 4 THEN Threw ELSE Gave(Combine(parts)))
        ELSE IF idx >= 4 THEN Threw
        ELSE IF g.token = <<>> THEN Threw
        ELSE IF ~n.ok THEN Threw
        ELSE IF Lt64(FromNat(255), n.v) THEN Threw
        ELSE ParseLoop(str, g.pos, Append(parts, Trunc32(n.v)))

parse_ipv4(str) == ParseLoop(str, 1, <<>>)

-----------------------------------------------------------------------------
(* The command line (src/apps/tb_cli.cpp): the parse helpers               *)

\* tb::Config{}: the default member initialisers
DefaultConfig == [a |-> <<40503, 31153>>, b |-> <<34283, 51831>>, k |-> 12]

\* parse_u64: base 10, and every character must have been read
parse_u64(str) ==
    LET r == stoull_base(str, 10)
    IN  [ok |-> r.ok /\ r.pos = Len(str), v |-> r.v]

\* parse_uint: parse_u64, refused above the largest unsigned int; the
\* value as a natural (the arguments of the model keep it small)
parse_uint(str) ==
    LET r == parse_u64(str)
    IN  [ok |-> r.ok /\ r.v[1] = 0 /\ r.v[2] = 0, v |-> ToNat(r.v)]

\* parse_hex32: a leading 0x or 0X is cut when more follows, then base 16,
\* every character read, refused above 0xFFFFFFFF
parse_hex32(str) ==
    LET txt == IF Len(str) > 2 /\ str[1] = "0" /\ str[2] \in {"x", "X"}
               THEN SubSeq(str, 3, Len(str)) ELSE str
        r   == stoull_base(txt, 16)
    IN  [ok |-> r.ok /\ r.pos = Len(txt) /\ r.v[1] = 0 /\ r.v[2] = 0,
         v  |-> Trunc32(r.v)]

\* the words of the command line
OptHelp        == <<"-", "-", "h", "e", "l", "p">>
OptH           == <<"-", "h">>
OptDemo        == <<"-", "-", "d", "e", "m", "o">>
OptFromFile    == <<"-", "-", "f", "r", "o", "m", "-", "f", "i", "l", "e">>
OptK           == <<"-", "-", "k">>
OptA           == <<"-", "-", "a">>
OptB           == <<"-", "-", "b">>
OptPreset      == <<"-", "-", "p", "r", "e", "s", "e", "t">>
OptShowBuckets == <<"-", "-", "s", "h", "o", "w", "-",
                    "b", "u", "c", "k", "e", "t", "s">>
NameDefault    == <<"d", "e", "f", "a", "u", "l", "t">>
NameWang       == <<"w", "a", "n", "g">>

\* apply_preset(cfg, name)
apply_preset(c, name) ==
    IF name = NameDefault
    THEN [ok |-> TRUE,
          cfg |-> [c EXCEPT !.a = <<40503, 31153>>, !.b = <<34283, 51831>>]]
    ELSE IF name = NameWang
    THEN [ok |-> TRUE,
          cfg |-> [c EXCEPT !.a = <<10196, 60205>>, !.b = <<5718, 26545>>]]
    ELSE [ok |-> FALSE, cfg |-> c]

\* Options opt; tb::Config cfg; int i = 1 -- the frame of parse_args: the
\* members of Options, the local cfg and the loop index (argv of the model
\* has no program name, so the index runs over 1..Len(argv))
NewOptions ==
    [none |-> FALSE, mode |-> "None", demo_count |-> <<0, 0, 0, 0>>,
     file_path |-> <<>>, cfg |-> DefaultConfig, preset_used |-> FALSE,
     show_buckets |-> FALSE, show_buckets_limit |-> <<0, 0, 0, 0>>,
     local |-> DefaultConfig, i |-> 1]

-----------------------------------------------------------------------------
(* Bounds and input sets                                                   *)

MaxHistK   == 3   \* histograms are built for k <= MaxHistK (2^k entries)
MaxLen     == 2   \* longest dataset handed to bucketize / distribution
MaxRange   == 3   \* longest non-empty range [start, end)
MaxBuckets == 3   \* longest histogram handed to compute_stats directly
MaxSamples == 4   \* largest count in such a histogram
MaxTokens  == 5   \* most dot-separated tokens in a generated line
MaxGroups  == 3   \* most options (with their values) on a command line

\* multipliers: 1, the default 0x9E3779B1, the wang preset 0x27D4EB2D, and
\* an even one (2)
Multipliers == { <<0, 1>>, <<40503, 31153>>, <<10196, 60205>>, <<0, 2>> }

\* offsets: 0, the default 0x85EBCA77, 0xFFFFFFFF
Offsets == { <<0, 0>>, <<34283, 51831>>, <<65535, 65535>> }

\* bit widths: the small ones, the default 12, and the ones about 32
BitWidths == (0..MaxHistK) \cup {12, 31, 32, 33}

Configs == [a : Multipliers, b : Offsets, k : BitWidths]

\* addresses: 0, 1, 42, 127.0.0.1, 0x80000000, 192.168.0.1, 0xFFFFFFFF
Addrs == { <<0, 0>>, <<0, 1>>, <<0, 42>>, <<32512, 1>>, <<32768, 0>>,
           <<49320, 1>>, <<65535, 65535>> }

\* the addresses datasets are made of: 1, 192.168.0.1, 0xFFFFFFFF
DataAddrs == { <<0, 1>>, <<49320, 1>>, <<65535, 65535>> }

Datasets == UNION { [1..n -> DataAddrs] : n \in 0..MaxLen }

\* range starts: 0, just below the limb boundary 2^16 (0xFFFF), and just
\* below the top of the address space (0xFFFFFFFC)
RangeStarts == { <<0, 0>>, <<0, 65535>>, <<65535, 65532>> }

\* start + n as a 64-bit value, n a small natural
AddNat(start, n) ==
    LET s0 == Lo(start) + n
        s1 == Hi(start) + (s0 \div W)
    IN  <<0, s1 \div W, s1 % W, s0 % W>>

\* the non-empty ranges [start, start + n) whose end is a 32-bit value
NonEmptyRanges ==
    { <<s, Trunc32(AddNat(s, n))>> :
        <<s, n>> \in { p \in RangeStarts \X (1..MaxRange) :
                         AddNat(p[1], p[2])[2] = 0 } }

\* the same pairs reversed (end < start), and the pairs with end = start
EmptyRanges ==
    { <<r[2], r[1]>> : r \in NonEmptyRanges } \cup { <<s, s>> : s \in RangeStarts }

Ranges == NonEmptyRanges \cup EmptyRanges

\* the tokens the generated lines are made of: empty, in range, at the
\* edge of the range, beyond it, followed by a letter, signed
Tokens ==
    { <<>>, <<"0">>, <<"2", "5", "5">>, <<"2", "5", "6">>, <<"1", "x">>,
      <<"-", "0">> }

\* the tokens joined by dots
RECURSIVE Join(_)
Join(ts) ==
    IF ts = <<>> THEN <<>>
    ELSE IF Len(ts) = 1 THEN ts[1]
    ELSE ts[1] \o <<".">> \o Join(Tail(ts))

TokenLines ==
    { Join(ts) : ts \in UNION { [1..n -> Tokens] : n \in 0..MaxTokens } }

\* "192.168.0.1", "10.0.0.1", "1.2.3", "1.2.3.4.5", "1.2.3.256", "1.2.3."
ScenarioLines ==
    { <<"1", "9", "2", ".", "1", "6", "8", ".", "0", ".", "1">>,
      <<"1", "0", ".", "0", ".", "0", ".", "1">>,
      <<"1", ".", "2", ".", "3">>,
      <<"1", ".", "2", ".", "3", ".", "4", ".", "5">>,
      <<"1", ".", "2", ".", "3", ".", "2", "5", "6">>,
      <<"1", ".", "2", ".", "3", ".">> }

Lines == TokenLines \cup ScenarioLines

\* the options a command line is made of, each with its value if it has
\* one: --a 0x1F, --b 5, --preset wang, --preset default, --preset fast,
\* --k 2, --demo 3, --from-file f, --show-buckets, --show-buckets 2,
\* --help, --a (its value missing or taken from what follows), --fast
ArgGroups ==
    { <<OptA, <<"0", "x", "1", "F">> >>,
      <<OptB, <<"5">> >>,
      <<OptPreset, NameWang>>,
      <<OptPreset, NameDefault>>,
      <<OptPreset, <<"f", "a", "s", "t">> >>,
      <<OptK, <<"2">> >>,
      <<OptDemo, <<"3">> >>,
      <<OptFromFile, <<"f">> >>,
      <<OptShowBuckets>>,
      <<OptShowBuckets, <<"2">> >>,
      <<OptHelp>>,
      <<OptA>>,
      << <<"-", "-", "f", "a", "s", "t">> >> }

\* the groups one after the other
RECURSIVE Concat(_)
Concat(gs) == IF gs = <<>> THEN <<>> ELSE Head(gs) \o Concat(Tail(gs))

ArgLists ==
    { Concat(gs) : gs \in UNION { [1..n -> ArgGroups] : n \in 0..MaxGroups } }

\* the counts given with --demo: 0, the short ranges, and 2^32, 2^32 + 1
\* and 2^64 - 1, which are beyond the 32-bit addresses
DemoCounts ==
    { FromNat(n) : n \in 0..MaxRange }
      \cup { <<0, 1, 0, 0>>, <<0, 1, 0, 1>>, <<65535, 65535, 65535, 65535>> }

\* what parse_args can return for --demo N with --a, --b, --k
DemoOptions ==
    { [NewOptions EXCEPT !.mode = "Demo", !.demo_count = n, !.cfg = c,
                         !.local = c, !.i = 7]
        : n \in DemoCounts, c \in { d \in Configs : d.k <= MaxHistK } }

\* histograms handed to compute_stats directly, indexed from 0
Histograms == UNION { [0..(m - 1) -> 0..MaxSamples] : m \in 0..MaxBuckets }

\* std::vector<std::size_t> counts(buckets, M)
UniformCounts(buckets, M) == [i \in 0..(buckets - 1) |-> M]

\* the synthetic histogram of the stats test: 16 buckets of 8
SyntheticHistograms == { UniformCounts(16, 8) }

-----------------------------------------------------------------------------
(* The engine as a state machine: one action per public operation; the     *)
(* loop of distribution(start, end) advances one iteration per step.       *)

NoCall  == [op |-> "none", arg |-> <<>>, status |-> "none", ret |-> <<>>]
NoFrame == [start |-> <<0, 0>>, end |-> <<0, 0>>, v |-> <<0, 0, 0, 0>>,
            counts |-> <<>>]

Returned(op, arg, ret) ==
    [op |-> op, arg |-> arg, status |-> "returned", ret |-> ret]

NoMemory == [op |-> "none", arg |-> <<>>, status |-> "none", ret |-> <<>>,
             other |-> FALSE]

\* no command line has been parsed
NoOptions == [none |-> TRUE]

\* the observer's note of a call that completes after the remembered one
Noted(rem, call) ==
    IF rem.op = "none" \/ call.op = "none" THEN rem
    ELSE IF call.op = rem.op /\ call.arg = rem.arg THEN rem
    ELSE [rem EXCEPT !.other = TRUE]

\* BucketEngine::BucketEngine(cfg): cfg_ is set once
Init ==
    /\ cfg \in Configs
    /\ pc = "idle"
    /\ last = NoCall
    /\ rng = NoFrame
    /\ hist = <<>>
    /\ remembered = NoMemory
    /\ line = <<>>
    /\ argv = <<>>
    /\ opt = NoOptions

\* the histogram of this configuration fits the model
HistFits == cfg.k <= MaxHistK

CallBucketIndex(ip) ==
    /\ pc = "idle"
    /\ last' = Returned("bucket_index", ip, bucket_index(cfg, ip))
    /\ remembered' = Noted(remembered, last')
    /\ UNCHANGED <<cfg, pc, rng, hist, line, argv, opt>>

\* bug variant of bucketize: it first forces the multiplier odd in cfg_
CallBucketize_forcesodd(ips) ==
    /\ pc = "idle"
    /\ cfg' = [cfg EXCEPT !.a = <<Hi(@), Lo(@) + 1 - (Lo(@) % 2)>>]
    /\ last' = Returned("bucketize", ips, bucketize(cfg', ips))
    /\ remembered' = Noted(remembered, last')
    /\ UNCHANGED <<pc, rng, hist, line, argv, opt>>

CallBucketize(ips) ==
    /\ pc = "idle"
    /\ last' = Returned("bucketize", ips, bucketize(cfg, ips))
    /\ remembered' = Noted(remembered, last')
    /\ UNCHANGED <<cfg, pc, rng, hist, line, argv, opt>>

CallDistribution(ips) ==
    /\ pc = "idle"
    /\ HistFits
    /\ last' = Returned("distribution", ips, distribution(cfg, ips))
    /\ remembered' = Noted(remembered, last')
    /\ UNCHANGED <<cfg, pc, rng, hist, line, argv, opt>>

\* bug variant of distribution(start, end): no test for the empty range and
\* a do-while loop, whose body runs once before the condition is looked at
CallDistributionRange_dowhile(start, end) ==
    /\ pc = "idle"
    /\ HistFits
    /\ pc' = "range_loop"
    /\ rng' = [start |-> start, end |-> end,
               v |-> Inc64(Widen(start)),
               counts |-> CountInto(ZeroCounts(bucket_count(cfg)),
                                    bucket_index(cfg, start))]
    /\ last' = NoCall
    /\ UNCHANGED <<cfg, hist, remembered, line, argv, opt>>

\* distribution(start, end) up to its loop: the two early returns, or the
\* loop entered with the 64-bit counter v at start
DistributionRange(start, end) ==
    /\ pc = "idle"
    /\ LET m      == bucket_count(cfg)
           counts == ZeroCounts(m)
       IN  IF m = <<0, 0, 0, 0>> \/ Le32(end, start)
           THEN /\ last' = Returned("distribution_range", <<start, end>>, counts)
                /\ UNCHANGED <<pc, rng>>
           ELSE /\ pc' = "range_loop"
                /\ rng' = [start |-> start, end |-> end,
                           v |-> Widen(start), counts |-> counts]
                /\ last' = NoCall
    /\ remembered' = Noted(remembered, last')
    /\ UNCHANGED <<cfg, hist, line, argv, opt>>

\* distribution(start, end) called on an engine whose histogram fits
CallDistributionRange(start, end) ==
    /\ HistFits
    /\ DistributionRange(start, end)

\* bug variant of the loop condition: v <= end, one iteration too many
RangeLoopCond_inclusive == ~Lt64(Widen(rng.end), rng.v)

\* the loop condition v < static_cast<std::uint64_t>(end)
RangeLoopCond == Lt64(rng.v, Widen(rng.end))

\* bug variant of one iteration: v += 2
RangeLoopStep_skip ==
    /\ pc = "range_loop"
    /\ RangeLoopCond
    /\ \E b \in {bucket_index(cfg, Trunc32(rng.v))} :
          rng' = [rng EXCEPT !.counts = CountInto(@, b),
                             !.v = Inc64(Inc64(@))]
    /\ UNCHANGED <<cfg, pc, last, hist, remembered, line, argv, opt>>

\* one iteration: const auto b = bucket_index(static_cast<IPv4>(v)), count
\* b, then ++v
RangeLoopStep ==
    /\ pc = "range_loop"
    /\ RangeLoopCond
    /\ \E b \in {bucket_index(cfg, Trunc32(rng.v))} :
          rng' = [rng EXCEPT !.counts = CountInto(@, b), !.v = Inc64(@)]
    /\ UNCHANGED <<cfg, pc, last, hist, remembered, line, argv, opt>>

\* the loop is over: return counts
RangeLoopExit ==
    /\ pc = "range_loop"
    /\ ~RangeLoopCond
    /\ last' = Returned("distribution_range", <<rng.start, rng.end>>, rng.counts)
    /\ pc' = "idle"
    /\ rng' = NoFrame
    /\ remembered' = Noted(remembered, last')
    /\ UNCHANGED <<cfg, hist, line, argv, opt>>

Next ==
    \/ \E ip \in Addrs : CallBucketIndex(ip)
    \/ \E ips \in Datasets : CallBucketize(ips)
    \/ \E ips \in Datasets : CallDistribution(ips)
    \/ \E r \in Ranges : CallDistributionRange(r[1], r[2])
    \/ RangeLoopStep
    \/ RangeLoopExit

Spec == Init /\ [][Next]_vars

\* The calls of distribution(start, end) run to completion: a call that has
\* begun goes on, statement after statement, so an enabled step of the loop
\* is eventually taken.
NextLive ==
    \/ \E r \in Ranges : CallDistributionRange(r[1], r[2])
    \/ RangeLoopStep
    \/ RangeLoopExit

SpecLive ==
    /\ Init
    /\ [][NextLive]_vars
    /\ WF_vars(RangeLoopStep)
    /\ WF_vars(RangeLoopExit)

-----------------------------------------------------------------------------
(* The engine under observation: as Spec, from two configurations, with    *)
(* an observer that remembers one completed call and its result.           *)

\* (a = 2, b = 0x85EBCA77, k = 2) and (a = 0x27D4EB2D, b = 0x85EBCA77, k = 33)
DetConfigs ==
    { c \in Configs :
        /\ c.b = <<34283, 51831>>
        /\ \/ c.a = <<0, 2>> /\ c.k = 2
           \/ c.a = <<10196, 60205>> /\ c.k = 33 }

\* the calls the observer may remember
ProbeAddrs    == { <<49320, 1>>, <<65535, 65535>> }
ProbeDatasets == { << <<0, 1>>, d >> : d \in DataAddrs }
ProbeRanges   == { r \in NonEmptyRanges : r[1] = <<0, 65535>> }

IsProbe(call) ==
    \/ call.op = "bucket_index" /\ call.arg \in ProbeAddrs
    \/ call.op \in {"bucketize", "distribution"} /\ call.arg \in ProbeDatasets
    \/ call.op = "distribution_range" /\ call.arg \in ProbeRanges

InitDet ==
    /\ cfg \in DetConfigs
    /\ pc = "idle"
    /\ last = NoCall
    /\ rng = NoFrame
    /\ hist = <<>>
    /\ remembered = NoMemory
    /\ line = <<>>
    /\ argv = <<>>
    /\ opt = NoOptions

Remember ==
    /\ pc = "idle"
    /\ remembered.op = "none"
    /\ IsProbe(last)
    /\ remembered' = [op |-> last.op, arg |-> last.arg, status |-> last.status,
                      ret |-> last.ret, other |-> FALSE]
    /\ UNCHANGED <<cfg, pc, last, rng, hist, line, argv, opt>>

NextDet == Next \/ Remember

SpecDet == InitDet /\ [][NextDet]_vars

-----------------------------------------------------------------------------
(* compute_stats, a free function: the histogram is drawn at the start and *)
(* the action applies compute_stats to it.                                 *)

InitStats ==
    /\ cfg = [a |-> <<40503, 31153>>, b |-> <<34283, 51831>>, k |-> 12]
    /\ pc = "idle"
    /\ last = NoCall
    /\ rng = NoFrame
    /\ hist \in Histograms \cup SyntheticHistograms
    /\ remembered = NoMemory
    /\ line = <<>>
    /\ argv = <<>>
    /\ opt = NoOptions

CallComputeStats ==
    /\ pc = "idle"
    /\ last' = Returned("compute_stats", hist, compute_stats(hist))
    /\ UNCHANGED <<cfg, pc, rng, hist, remembered, line, argv, opt>>

NextStats == CallComputeStats

SpecStats == InitStats /\ [][NextStats]_vars

-----------------------------------------------------------------------------
(* The identity-like scenario of the test suite: a = 1, b = 0, k = 4; the  *)
(* histogram of [0, buckets * M) is built, then handed to compute_stats.   *)

IdentityConfig == [a |-> <<0, 1>>, b |-> <<0, 0>>, k |-> 4]

InitIdentity ==
    /\ cfg = IdentityConfig
    /\ pc = "idle"
    /\ last = NoCall
    /\ rng = NoFrame
    /\ hist = <<>>
    /\ remembered = NoMemory
    /\ line = <<>>
    /\ argv = <<>>
    /\ opt = NoOptions

\* counts = engine.distribution(0u, static_cast<tb::IPv4>(N)), N = buckets * M
IdentityDistribution ==
    /\ last.op = "none"
    /\ LET buckets == ToNat(bucket_count(cfg))
           M       == 8
           N       == buckets * M
       IN  DistributionRange(<<0, 0>>, Trunc32(FromNat(N)))

\* stats = compute_stats(counts), counts being the histogram just returned
StatsOfCounts ==
    /\ pc = "idle"
    /\ last.op = "distribution_range"
    /\ hist' = last.ret
    /\ last' = Returned("compute_stats", hist', compute_stats(hist'))
    /\ UNCHANGED <<cfg, pc, rng, remembered, line, argv, opt>>

NextIdentity ==
    \/ IdentityDistribution
    \/ RangeLoopStep
    \/ RangeLoopExit
    \/ StatsOfCounts

SpecIdentity == InitIdentity /\ [][NextIdentity]_vars

-----------------------------------------------------------------------------
(* parse_ipv4, a free function: the line is drawn at the start and the     *)
(* action applies parse_ipv4 to it.                                        *)

InitParse ==
    /\ cfg = [a |-> <<40503, 31153>>, b |-> <<34283, 51831>>, k |-> 12]
    /\ pc = "idle"
    /\ last = NoCall
    /\ rng = NoFrame
    /\ hist = <<>>
    /\ remembered = NoMemory
    /\ line \in Lines
    /\ argv = <<>>
    /\ opt = NoOptions

CallParseIpv4 ==
    /\ pc = "idle"
    /\ LET r == parse_ipv4(line)
       IN  last' = [op |-> "parse_ipv4", arg |-> line,
                    status |-> r.status, ret |-> r.ret]
    /\ UNCHANGED <<cfg, pc, rng, hist, remembered, line, argv, opt>>

NextParse == CallParseIpv4

SpecParse == InitParse /\ [][NextParse]_vars

-----------------------------------------------------------------------------
(* The command line as a state machine: main up to the return of           *)
(* parse_args, one action per kind of argument met by its loop.            *)

InitCli ==
    /\ cfg = DefaultConfig
    /\ pc = "main"
    /\ last = NoCall
    /\ rng = NoFrame
    /\ hist = <<>>
    /\ remembered = NoMemory
    /\ line = <<>>
    /\ argv \in ArgLists
    /\ opt = NoOptions

\* main with argc <= 1: the usage text, return 1
MainUsage ==
    /\ pc = "main"
    /\ Len(argv) = 0
    /\ pc' = "idle"
    /\ last' = [op |-> "main", arg |-> argv, status |-> "usage", ret |-> <<>>]
    /\ UNCHANGED <<cfg, rng, hist, remembered, line, argv, opt>>

\* main calls parse_args, which sets up its locals
ParseArgsBegin ==
    /\ pc = "main"
    /\ Len(argv) > 0
    /\ pc' = "parse_args"
    /\ opt' = NewOptions
    /\ UNCHANGED <<cfg, last, rng, hist, remembered, line, argv>>

\* the loop of parse_args is at the argument a
ArgIs(a) == pc = "parse_args" /\ opt.i <= Len(argv) /\ argv[opt.i] = a

\* i + 1 < argc, and argv[i + 1]
HasNext == opt.i + 1 <= Len(argv)
NextArg == argv[opt.i + 1]

\* the loop goes on with the frame o
Continue(o) ==
    /\ opt' = o
    /\ UNCHANGED <<cfg, pc, last, rng, hist, remembered, line, argv>>

\* parse_args is left with the frame o: by return, throw or std::exit
Leave(o, how) ==
    /\ opt' = o
    /\ pc' = "idle"
    /\ last' = [op |-> "parse_args", arg |-> argv, status |-> how,
                ret |-> <<>>]
    /\ UNCHANGED <<cfg, rng, hist, remembered, line, argv>>

ArgHelp ==
    /\ ArgIs(OptHelp) \/ ArgIs(OptH)
    /\ Leave(opt, "exit")

ArgDemo ==
    /\ ArgIs(OptDemo)
    /\ IF ~HasNext THEN Leave(opt, "thrown")
       ELSE LET r == parse_u64(NextArg)
                o == [opt EXCEPT !.mode = "Demo"]
            IN  IF ~r.ok THEN Leave(o, "thrown")
                ELSE Continue([o EXCEPT !.demo_count = r.v, !.i = @ + 2])

ArgFromFile ==
    /\ ArgIs(OptFromFile)
    /\ IF ~HasNext THEN Leave(opt, "thrown")
       ELSE Continue([opt EXCEPT !.mode = "FromFile", !.file_path = NextArg,
                                 !.i = @ + 2])

ArgK ==
    /\ ArgIs(OptK)
    /\ IF ~HasNext THEN Leave(opt, "thrown")
       ELSE LET r == parse_uint(NextArg)
            IN  IF ~r.ok THEN Leave(opt, "thrown")
                ELSE Continue([opt EXCEPT !.local.k = r.v, !.i = @ + 2])

ArgA ==
    /\ ArgIs(OptA)
    /\ IF ~HasNext THEN Leave(opt, "thrown")
       ELSE LET r == parse_hex32(NextArg)
            IN  IF ~r.ok THEN Leave(opt, "thrown")
                ELSE Continue([opt EXCEPT !.local.a = r.v, !.i = @ + 2])

ArgB ==
    /\ ArgIs(OptB)
    /\ IF ~HasNext THEN Leave(opt, "thrown")
       ELSE LET r == parse_hex32(NextArg)
            IN  IF ~r.ok THEN Leave(opt, "thrown")
                ELSE Continue([opt EXCEPT !.local.b = r.v, !.i = @ + 2])

ArgPreset ==
    /\ ArgIs(OptPreset)
    /\ IF ~HasNext THEN Leave(opt, "thrown")
       ELSE LET r == apply_preset(opt.local, NextArg)
            IN  IF ~r.ok THEN Leave(opt, "thrown")
                ELSE Continue([opt EXCEPT !.local = r.cfg,
                                          !.preset_used = TRUE, !.i = @ + 2])

\* --show-buckets takes the next argument as its limit when there is one
\* that is not empty and does not begin with '-'
ArgShowBuckets ==
    /\ ArgIs(OptShowBuckets)
    /\ LET o == [opt EXCEPT !.show_buckets = TRUE]
       IN  IF HasNext /\ NextArg # <<>> /\ NextArg[1] # "-"
           THEN LET r == parse_u64(NextArg)
                IN  IF ~r.ok THEN Leave(o, "thrown")
                    ELSE Continue([o EXCEPT !.show_buckets_limit = r.v,
                                            !.i = @ + 2])
           ELSE Continue([o EXCEPT !.i = @ + 1])

ArgUnknown ==
    /\ pc = "parse_args"
    /\ opt.i <= Len(argv)
    /\ argv[opt.i] \notin {OptHelp, OptH, OptDemo, OptFromFile, OptK, OptA,
                           OptB, OptPreset, OptShowBuckets}
    /\ Leave(opt, "thrown")

\* after the loop: no mode throws; otherwise opt.cfg = cfg; return opt
ParseArgsEnd ==
    /\ pc = "parse_args"
    /\ opt.i > Len(argv)
    /\ IF opt.mode = "None" THEN Leave(opt, "thrown")
       ELSE Leave([opt EXCEPT !.cfg = opt.local], "returned")

NextCli ==
    \/ MainUsage
    \/ ParseArgsBegin
    \/ ArgHelp
    \/ ArgDemo
    \/ ArgFromFile
    \/ ArgK
    \/ ArgA
    \/ ArgB
    \/ ArgPreset
    \/ ArgShowBuckets
    \/ ArgUnknown
    \/ ParseArgsEnd

SpecCli == InitCli /\ [][NextCli]_vars

-----------------------------------------------------------------------------
(* Demo mode: run_demo(opt) on the Options parse_args returned, with the   *)
(* engine built from opt.cfg.                                              *)

InitDemo ==
    /\ opt \in DemoOptions
    /\ cfg = opt.cfg
    /\ pc = "idle"
    /\ last = NoCall
    /\ rng = NoFrame
    /\ hist = <<>>
    /\ remembered = NoMemory
    /\ line = <<>>
    /\ argv = <<>>

\* std::numeric_limits<tb::IPv4>::max() + 1ULL
max_u32 == Inc64(Widen(<<W - 1, W - 1>>))

\* std::min(x, y) on 64 bits: (y < x) ? y : x
Min64(x, y) == IF Lt64(y, x) THEN y ELSE x

\* std::min(N, max_u32)
Clamped(N) == Min64(N, max_u32)

\* run_demo up to the loop of distribution(start, end): N = 0 throws;
\* otherwise end = static_cast<tb::IPv4>(clamped) and the range is entered
RunDemo ==
    /\ pc = "idle"
    /\ last.op = "none"
    /\ LET N == opt.demo_count
       IN  IF N = <<0, 0, 0, 0>>
           THEN /\ last' = [op |-> "run_demo", arg |-> N, status |-> "thrown",
                            ret |-> <<>>]
                /\ UNCHANGED <<cfg, pc, rng, hist, remembered, line, argv,
                               opt>>
           ELSE LET start == <<0, 0>>
                    end   == Trunc32(Clamped(N))
                IN  DistributionRange(start, end)

\* run_demo after distribution returned: compute_stats(counts), then the
\* report "Range: [0, clamped) (sample_count samples)" and the statistics
DemoReport ==
    /\ pc = "idle"
    /\ last.op = "distribution_range"
    /\ hist' = last.ret
    /\ LET stats == compute_stats(hist')
       IN  last' = Returned("run_demo", opt.demo_count,
                            [range_end |-> Clamped(opt.demo_count),
                             samples   |-> stats.sample_count,
                             stats     |-> stats])
    /\ UNCHANGED <<cfg, pc, rng, remembered, line, argv, opt>>

NextDemo ==
    \/ RunDemo
    \/ RangeLoopStep
    \/ RangeLoopExit
    \/ DemoReport

SpecDemo == InitDemo /\ [][NextDemo]_vars

-----------------------------------------------------------------------------
(* Reference arithmetic for the properties: binary, bit by bit, with no    *)
(* limb or word of the engine's computation in it.                         *)

\* bit i (0 = least significant) of a 32-bit value
BitAt(u, i) == IF i < 16 THEN (Lo(u) \div (2^i)) % 2
               ELSE (Hi(u) \div (2^(i - 16))) % 2

\* column i of the binary long multiplication a*x, plus bit i of b, plus
\* the carry out of column i - 1
RECURSIVE Column(_, _, _, _)
Column(a, x, b, i) ==
    Cardinality({ j \in 0..i : BitAt(a, j) = 1 /\ BitAt(x, i - j) = 1 })
      + BitAt(b, i)
      + (IF i = 0 THEN 0 ELSE Column(a, x, b, i - 1) \div 2)

\* bit i of (a*x + b) mod 2^32, i in 0..31: the columns above 31 are cut
AffineBit(a, x, b, i) == Column(a, x, b, i) % 2

\* u - v and u * v modulo 2^32
Sub32(u, v) ==
    LET d0 == Lo(u) - Lo(v) + W
        d1 == Hi(u) - Hi(v) + W - (IF d0 < W THEN 1 ELSE 0)
    IN  << d1 % W, d0 % W >>
Mul32(u, v) == Trunc32(MulAdd64(u, v, <<0, 0>>))

\* Newton's iteration inv := inv * (2 - a * inv) modulo 2^32; it doubles
\* the number of low bits in which a * inv is 1
RECURSIVE Newton(_, _, _)
Newton(a, inv, n) ==
    IF n = 0 THEN inv
    ELSE Newton(a, Mul32(inv, Sub32(<<0, 2>>, Mul32(a, inv))), n - 1)

\* the candidate inverse of an odd a modulo 2^32 (a * a is 1 modulo 8)
Inverse(a) == Newton(a, a, 5)

\* the low parts tried below a bucket index of k bits: 0, 1 and the
\* largest one, 2^(32-k) - 1
LowParts(k) ==
    { <<0, 0>>, <<0, 1>>, Sub32(Shl32(<<0, 1>>, WordBits - k), <<0, 1>>) }

\* the 32-bit value i, a small natural
Index32(i) == <<i \div W, i % W>>

\* the sum of the first n entries of a histogram, from the last one down
RECURSIVE RefSum(_, _)
RefSum(h, n) == IF n = 0 THEN 0 ELSE RefSum(h, n - 1) + h[n - 1]

\* the positions of the dots of a string, with both ends as sentinels
DotsOf(str) == { i \in 0..(Len(str) + 1) :
                   i = 0 \/ i = Len(str) + 1 \/ str[i] = "." }

\* the dot-separated tokens of a string, as pairs <<first, last>> of
\* positions: what lies between two neighbouring dots
TokenSpans(str) ==
    { <<i + 1, j - 1>> : <<i, j>> \in
        { p \in DotsOf(str) \X DotsOf(str) :
            /\ p[1] < p[2]
            /\ ~\E d \in DotsOf(str) : p[1] < d /\ d < p[2] } }

\* the number written by the decimal digits at positions f..l
DecimalAt(str, f, l) ==
    LET D(c) == CASE c = "0" -> 0 [] c = "1" -> 1 [] c = "2" -> 2
                  [] c = "3" -> 3 [] c = "4" -> 4 [] c = "5" -> 5
                  [] c = "6" -> 6 [] c = "7" -> 7 [] c = "8" -> 8
                  [] c = "9" -> 9
        RECURSIVE Val(_)
        Val(i) == IF i < f THEN 0 ELSE D(str[i]) + 10 * Val(i - 1)
    IN  Val(l)

\* a token that is one or more decimal digits writing a value in [0, 255]
IsOctet(str, f, l) ==
    /\ f <= l
    /\ \A i \in f..l : str[i] \in {"0", "1", "2", "3", "4", "5", "6", "7",
                                    "8", "9"}
    /\ DecimalAt(str, f, l) <= 255

\* exactly four dot-separated tokens, each of them an octet
IsDottedQuad(str) ==
    /\ Cardinality(TokenSpans(str)) = 4
    /\ \A t \in TokenSpans(str) : IsOctet(str, t[1], t[2])

\* the k-th token of a string, k = 1 for the first
SpanNo(str, k) ==
    CHOOSE t \in TokenSpans(str) :
        Cardinality({ u \in TokenSpans(str) : u[1] < t[1] }) = k - 1

OctetNo(str, k) == DecimalAt(str, SpanNo(str, k)[1], SpanNo(str, k)[2])

\* the 32-bit value u + n, n a small natural
Plus32(u, n) == << (Hi(u) + (Lo(u) + n) \div W) % W, (Lo(u) + n) % W >>

\* end - start for the ranges of the model
RangeLen(start, end) == CHOOSE n \in 0..MaxRange : Plus32(start, n) = end

\* the dataset listing every integer of [start, start + n) once, ascending
Listing(start, n) == [j \in 1..n |-> Plus32(start, j - 1)]

\* the sum over the first k entries of (m * h[i] - n)^2, in integers
RECURSIVE ScaledSquares(_, _, _, _)
ScaledSquares(h, k, m, n) ==
    IF k = 0 THEN 0
    ELSE ScaledSquares(h, k - 1, m, n)
           + (m * h[k - 1] - n) * (m * h[k - 1] - n)

\* the largest of |m * h[i] - n|, in integers: m times the largest
\* deviation of a count from the mean n / m
ScaledMaxDev(h, m, n) ==
    CHOOSE d \in { Abs(m * h[i] - n) : i \in DOMAIN h } :
        \A i \in DOMAIN h : Abs(m * h[i] - n) <= d

\* the square of a floating-point value, a root kept symbolically included
Squared(x) == IF Len(x) = 3 THEN <<x[1], x[2]>> ELSE <<x[1] * x[1], x[2] * x[2]>>

\* two histograms merged by element-wise addition
Merge(h1, h2) == [i \in DOMAIN h1 |-> h1[i] + h2[i]]

\* x <= y and 0 <= x on floating-point values; false for NaN
FLe(x, y)    == x # NaN /\ y # NaN /\ ~FLt(y, x)
FNonNeg(x)   == FLe(<<0, 1>>, x)

-----------------------------------------------------------------------------
(* Properties of the bucket engine                                         *)

\* C1: bucket_index(x) is the top k bits of y = (a*x + b) mod 2^32: bit i of
\* the result is bit i + (32 - k) of y for i < k and 0 above (that is
\* floor(y / 2^(32-k))), and the result is y itself for k >= 32; the
\* multiply-add wraps modulo 2^32 and every call returns.
C1_TopBitsOfAffine ==
    last.op = "bucket_index" =>
        /\ last.status = "returned"
        /\ \A i \in 0..(WordBits - 1) :
             BitAt(last.ret, i) =
               IF cfg.k >= WordBits
               THEN AffineBit(cfg.a, last.arg, cfg.b, i)
               ELSE IF i < cfg.k
                    THEN AffineBit(cfg.a, last.arg, cfg.b, i + WordBits - cfg.k)
                    ELSE 0

\* C1 witness: 0 < k < 32 and the 64-bit multiply-add went beyond 32 bits,
\* so that the cut to 32 bits dropped something
C1_Witness ==
    /\ last.op = "bucket_index"
    /\ cfg.k = 12
    /\ MulAdd64(cfg.a, last.arg, cfg.b)[2] # 0
    /\ last.ret # <<0, 0>>

\* C2: with k = 0 every bucket_index is 0, and distribution over a dataset
\* returns a one-entry histogram whose count is the dataset's size.
C2_KZeroSingleBucket ==
    cfg.k = 0 =>
        /\ last.op = "bucket_index" => last.ret = <<0, 0>>
        /\ last.op = "distribution" =>
             /\ Size(last.ret) = 1
             /\ last.ret[0] = Len(last.arg)

\* C2 witness: k = 0, a non-trivial multiplier, a dataset of two addresses
C2_Witness ==
    /\ cfg.k = 0
    /\ cfg.a = <<40503, 31153>>
    /\ last.op = "distribution"
    /\ Len(last.arg) = 2
    /\ last.ret[0] = 2

\* C3: bucket_index lies in [0, bucket_count): it is below bucket_count(),
\* and bucket_count() is 2^k (k < 32) or 2^32, so that no bit at position k
\* or above is set.
C3_IndexBelowBucketCount ==
    last.op = "bucket_index" =>
        /\ Lt64(Widen(last.ret), bucket_count(cfg))
        /\ \A i \in 0..(WordBits - 1) : i >= cfg.k => BitAt(last.ret, i) = 0
        /\ \A j \in 1..4 :
             bucket_count(cfg)[j] =
               LET e == IF cfg.k >= WordBits THEN WordBits ELSE cfg.k
               IN  IF 4 - j = e \div 16 THEN 2^(e % 16) ELSE 0

\* C3 witness: k >= 32 (bucket_count clamped to 2^32) and an index with the
\* top bit set; and separately 0 < k < 32 is reached by C1's witness
C3_Witness ==
    /\ last.op = "bucket_index"
    /\ cfg.k = 33
    /\ BitAt(last.ret, 31) = 1

\* C4: distribution(addresses) has exactly bucket_count entries, entry i is
\* the number of positions of the dataset whose bucket_index is i, and the
\* entries sum to the dataset's length.
C4_HistogramCounts ==
    last.op = "distribution" =>
        /\ FromNat(Size(last.ret)) = bucket_count(cfg)
        /\ DOMAIN last.ret = 0..(Size(last.ret) - 1)
        /\ \A i \in DOMAIN last.ret :
             last.ret[i] =
               Cardinality({ j \in 1..Len(last.arg) :
                               bucket_index(cfg, last.arg[j]) = Index32(i) })
        /\ RefSum(last.ret, Size(last.ret)) = Len(last.arg)

\* C4 witness: several buckets, and one of them counted twice
C4_Witness ==
    /\ last.op = "distribution"
    /\ cfg.k = MaxHistK
    /\ Len(last.arg) = 2
    /\ \E i \in DOMAIN last.ret : last.ret[i] = 2

\* C5: bucketize(addresses) has the length of its input, and its i-th
\* element is bucket_index of the i-th address.
C5_BucketizeElementwise ==
    last.op = "bucketize" =>
        /\ Len(last.ret) = Len(last.arg)
        /\ \A i \in 1..Len(last.arg) :
             last.ret[i] = bucket_index(cfg, last.arg[i])

\* C5 witness: two addresses that land in different buckets
C5_Witness ==
    /\ last.op = "bucketize"
    /\ Len(last.arg) = 2
    /\ last.ret[1] # last.ret[2]

\* C7: distribution(start, end) with end <= start returns, without error, an
\* all-zero histogram of bucket_count entries.
C7_EmptyRangeAllZero ==
    (last.op = "distribution_range" /\ Le32(last.arg[2], last.arg[1])) =>
        /\ last.status = "returned"
        /\ FromNat(Size(last.ret)) = bucket_count(cfg)
        /\ \A i \in DOMAIN last.ret : last.ret[i] = 0

\* C7 witness: end strictly below start, with more than one bucket
C7_Witness ==
    /\ last.op = "distribution_range"
    /\ LtLimbs(last.arg[2], last.arg[1])
    /\ cfg.k = 2
    /\ Size(last.ret) = 4

\* C7 witness for the boundary start = end = 0
C7_WitnessZeroZero ==
    /\ last.op = "distribution_range"
    /\ last.arg = << <<0, 0>>, <<0, 0>> >>

\* C17: for start < end, distribution(start, end) equals distribution of
\* the dataset listing every integer of [start, end) once: entry i is the
\* number of v in [start, end) with bucket_index(v) = i, and the entries
\* sum to end - start.
C17_RangeEqualsListing ==
    (last.op = "distribution_range" /\ LtLimbs(last.arg[1], last.arg[2])) =>
        LET start == last.arg[1]
            n     == RangeLen(start, last.arg[2])
        IN  /\ last.ret = distribution(cfg, Listing(start, n))
            /\ \A i \in DOMAIN last.ret :
                  last.ret[i] =
                    Cardinality({ j \in 0..(n - 1) :
                        bucket_index(cfg, Plus32(start, j)) = Index32(i) })
            /\ RefSum(last.ret, Size(last.ret)) = n

\* C17 witness: a range of three addresses across the limb boundary 2^16
\* that lands in more than one bucket
C17_Witness ==
    /\ last.op = "distribution_range"
    /\ last.arg = << <<0, 65535>>, <<1, 2>> >>
    /\ cfg.k = MaxHistK
    /\ \E i, j \in DOMAIN last.ret :
          i # j /\ last.ret[i] > 0 /\ last.ret[j] > 0

\* C17 witness: the range that ends at the last address, 0xFFFFFFFF
C17_WitnessTop ==
    /\ last.op = "distribution_range"
    /\ last.arg = << <<65535, 65532>>, <<65535, 65535>> >>
    /\ RefSum(last.ret, Size(last.ret)) = 3

\* C20: range sharding. For start <= mid <= end, distribution(start, end)
\* is the element-wise sum of distribution(start, mid) and
\* distribution(mid, end), and the merged result is the same in whatever
\* order the shard histograms are added (two shards, and three).
C20_ShardsMergeToWhole ==
    (last.op = "distribution_range" /\ Le32(last.arg[1], last.arg[2])) =>
        LET start == last.arg[1]
            end   == last.arg[2]
            n     == RangeLen(start, end)
            Shard(i, j) ==
                distribution_range(cfg, Plus32(start, i), Plus32(start, j))
        IN  /\ last.ret = Shard(0, n)
            /\ \A j \in 0..n :
                  /\ last.ret = Merge(Shard(0, j), Shard(j, n))
                  /\ last.ret = Merge(Shard(j, n), Shard(0, j))
                  /\ \A i \in 0..j :
                        LET A == Shard(0, i)
                            B == Shard(i, j)
                            C == Shard(j, n)
                        IN  /\ last.ret = Merge(Merge(A, B), C)
                            /\ last.ret = Merge(A, Merge(B, C))
                            /\ last.ret = Merge(Merge(C, A), B)
                            /\ last.ret = Merge(B, Merge(C, A))

\* C20 witness: a range of three addresses across the limb boundary 2^16
\* whose shards [start, start + 1) and [start + 1, end) fill different
\* buckets
C20_Witness ==
    /\ last.op = "distribution_range"
    /\ last.arg = << <<0, 65535>>, <<1, 2>> >>
    /\ cfg.k = MaxHistK
    /\ LET left  == distribution_range(cfg, <<0, 65535>>, <<1, 0>>)
           right == distribution_range(cfg, <<1, 0>>, <<1, 2>>)
       IN  /\ \E i \in DOMAIN left : left[i] = 1 /\ right[i] = 0
           /\ \E i \in DOMAIN right : right[i] > 0 /\ left[i] = 0

\* C20 witness: the empty range, whose only shards are empty
C20_WitnessEmpty ==
    /\ last.op = "distribution_range"
    /\ last.arg = << <<0, 65535>>, <<0, 65535>> >>
    /\ cfg.k = 1
    /\ last.ret = Merge(last.ret, last.ret)

\* C21: when the multiplier is odd, x -> (a*x + b) mod 2^32 is a bijection
\* on the 32-bit values.  (1) a has an inverse inv modulo 2^32 (a * inv is
\* 1, bit by bit), so that y -> inv * (y - b) undoes the map; (2) distinct
\* addresses give distinct y; (3) with k >= 32 bucket_index is injective
\* and is undone by the inverse; (4) with 0 < k < 32 the bucket j of the
\* call is the image of the addresses inv * ((j * 2^(32-k) + r) - b), one
\* for each low part r below 2^(32-k), distinct for distinct r.
C21_OddMultiplierBijection ==
    (last.op = "bucket_index" /\ Lo(cfg.a) % 2 = 1) =>
        LET inv    == Inverse(cfg.a)
            Pre(y) == Mul32(inv, Sub32(y, cfg.b))
            Y(x)   == bucket_index([cfg EXCEPT !.k = WordBits], x)
            j      == last.ret
            Of(r)  == Pre(Or32(Shl32(j, WordBits - cfg.k), r))
        IN  /\ \A i \in 0..(WordBits - 1) :
                  AffineBit(cfg.a, inv, <<0, 0>>, i) = IF i = 0 THEN 1 ELSE 0
            /\ \A x \in Addrs : x # last.arg => Y(x) # Y(last.arg)
            /\ Pre(Y(last.arg)) = last.arg
            /\ cfg.k >= WordBits =>
                  /\ Pre(last.ret) = last.arg
                  /\ \A x \in Addrs :
                        x # last.arg => bucket_index(cfg, x) # last.ret
            /\ (0 < cfg.k /\ cfg.k < WordBits) =>
                  /\ \A r \in LowParts(cfg.k) : bucket_index(cfg, Of(r)) = j
                  /\ \A r1, r2 \in LowParts(cfg.k) :
                        r1 # r2 => Of(r1) # Of(r2)

\* C21 witness: the default odd multiplier, k = 12, the last address, and
\* a bucket other than 0
C21_Witness ==
    /\ last.op = "bucket_index"
    /\ cfg.a = <<40503, 31153>>
    /\ cfg.k = 12
    /\ last.arg = <<65535, 65535>>
    /\ last.ret # <<0, 0>>

\* C21 witness: the wang multiplier with k >= 32, where the index is y
\* itself
C21_WitnessFullWidth ==
    /\ last.op = "bucket_index"
    /\ cfg.a = <<10196, 60205>>
    /\ cfg.k = 32
    /\ last.arg = <<32768, 0>>

\* the multiplier 2, which is even, sends 0 and 0x80000000 to the same y
C21_EvenMultiplierCollides ==
    (/\ last.op = "bucket_index"
     /\ cfg.a = <<0, 2>>
     /\ last.arg = <<32768, 0>>)
        => bucket_index([cfg EXCEPT !.k = WordBits], <<0, 0>>)
             = bucket_index([cfg EXCEPT !.k = WordBits], last.arg)

\* inside the loop the counter lies in [start, end], has no bit above the
\* 32nd, and the iterations done so far, one count each, number v - start
LoopCounterInRange ==
    pc = "range_loop" =>
        /\ ~Lt64(rng.v, Widen(rng.start))
        /\ ~Lt64(Widen(rng.end), rng.v)
        /\ rng.v[1] = 0 /\ rng.v[2] = 0
        /\ \E n \in 0..MaxRange :
              /\ Plus32(rng.start, n) = Trunc32(rng.v)
              /\ RefSum(rng.counts, Size(rng.counts)) = n

\* the loop is entered only for start < end, with v = start; an iteration
\* moves v up by exactly one, to a value not seen before, and counts the
\* address v; the loop is left only with v = end; a call with end <= start
\* returns without passing through the loop
LoopAdvances ==
    /\ (pc = "idle" /\ pc' = "range_loop") =>
          /\ LtLimbs(rng'.start, rng'.end)
          /\ rng'.v = Widen(rng'.start)
    /\ (pc = "range_loop" /\ pc' = "range_loop") =>
          /\ Lt64(rng.v, rng'.v)
          /\ Trunc32(rng'.v) = Plus32(Trunc32(rng.v), 1)
          /\ rng'.start = rng.start /\ rng'.end = rng.end
    /\ (pc = "range_loop" /\ pc' = "idle") =>
          /\ rng.v = Widen(rng.end)
          /\ last'.arg = <<rng.start, rng.end>>
    /\ (last'.op = "distribution_range"
           /\ Le32(last'.arg[2], last'.arg[1])) => (pc = "idle" /\ pc' = "idle")

\* C22: for every configuration and every start and end, end = 0xFFFFFFFF
\* included, the loop of distribution(start, end) terminates after exactly
\* max(end - start, 0) iterations: it is not entered when end <= start; its
\* 64-bit counter goes from start to end in steps of one, never wraps and
\* never revisits an address; and a loop that has begun comes to its end.
C22_LoopTerminates ==
    /\ []LoopCounterInRange
    /\ [][LoopAdvances]_vars
    /\ (pc = "range_loop") ~> (pc = "idle")

\* C22 witness: the loop up to end = 0xFFFFFFFF has done its three
\* iterations and its counter stands at end
C22_Witness ==
    /\ pc = "range_loop"
    /\ rng.start = <<65535, 65532>>
    /\ rng.end = <<65535, 65535>>
    /\ rng.v = <<0, 0, 65535, 65535>>
    /\ RefSum(rng.counts, Size(rng.counts)) = 3

\* C6: determinism. Whenever a call completes that has the operation and
\* the input of a call remembered earlier on the same engine, it has the
\* remembered result, whatever calls completed in between.
C6_SameCallSameResult ==
    (/\ remembered.op # "none"
     /\ last.op = remembered.op
     /\ last.arg = remembered.arg)
        => /\ last.ret = remembered.ret
           /\ last.status = remembered.status

\* C6 witness: the remembered distribution is run again after a different
\* call has completed in between
C6_Witness ==
    /\ remembered.op = "distribution"
    /\ remembered.other
    /\ last.op = remembered.op
    /\ last.arg = remembered.arg

-----------------------------------------------------------------------------
(* Properties of compute_stats                                             *)

\* C8: compute_stats(h).sample_count is the sum of h and
\* compute_stats(h).bucket_count is the length of h, for every h.
C8_SampleAndBucketCount ==
    last.op = "compute_stats" =>
        /\ DOMAIN last.arg = 0..(last.ret.bucket_count - 1)
        /\ last.ret.sample_count = RefSum(last.arg, last.ret.bucket_count)

\* C8 witness: three buckets with different counts
C8_Witness ==
    /\ last.op = "compute_stats"
    /\ last.ret.bucket_count = 3
    /\ last.arg[0] = 1 /\ last.arg[1] = 2 /\ last.arg[2] = 4
    /\ last.ret.sample_count = 7

\* C9: for the empty histogram and for a histogram of zeros compute_stats
\* returns mean = stddev = chi2 = uniformity = 0, with sample_count (0) and
\* bucket_count (the length) set.
C9_DegenerateAllZero ==
    (/\ last.op = "compute_stats"
     /\ \A i \in DOMAIN last.arg : last.arg[i] = 0)
        => /\ last.status = "returned"
           /\ last.ret.mean = <<0, 1>>
           /\ last.ret.stddev = <<0, 1>>
           /\ last.ret.chi2 = <<0, 1>>
           /\ last.ret.uniformity = <<0, 1>>
           /\ last.ret.sample_count = 0
           /\ last.ret.bucket_count = Cardinality(DOMAIN last.arg)

\* C9 witness: a histogram of three zeros
C9_Witness ==
    /\ last.op = "compute_stats"
    /\ DOMAIN last.arg = 0..2
    /\ \A i \in DOMAIN last.arg : last.arg[i] = 0
    /\ last.ret.bucket_count = 3

\* C9 witness for the empty histogram
C9_WitnessEmpty ==
    /\ last.op = "compute_stats"
    /\ DOMAIN last.arg = {}
    /\ last.ret.bucket_count = 0

\* C10: 0 <= uniformity <= 100, stddev >= 0 and chi2 >= 0 for every
\* histogram (none of them NaN).
C10_StatsRanges ==
    last.op = "compute_stats" =>
        /\ FNonNeg(last.ret.uniformity)
        /\ FLe(last.ret.uniformity, <<100, 1>>)
        /\ FNonNeg(last.ret.stddev)
        /\ FNonNeg(last.ret.chi2)

\* C10 witness: one count above twice the mean, so that 1 - max_dev/mean is
\* negative before the clamp, and an irrational standard deviation
C10_Witness ==
    /\ last.op = "compute_stats"
    /\ DOMAIN last.arg = 0..2
    /\ last.arg[0] = 0 /\ last.arg[1] = 0 /\ last.arg[2] = 4
    /\ last.ret.uniformity = <<0, 1>>
    /\ Len(last.ret.stddev) = 3

\* C11: for a histogram whose counts all equal the same positive value c,
\* compute_stats returns mean = c, stddev = 0, chi2 = 0, uniformity = 100.
C11_UniformHistogramStats ==
    (/\ last.op = "compute_stats"
     /\ DOMAIN last.arg # {}
     /\ last.arg[0] > 0
     /\ \A i \in DOMAIN last.arg : last.arg[i] = last.arg[0])
        => /\ last.ret.mean = <<last.arg[0], 1>>
           /\ last.ret.stddev = <<0, 1>>
           /\ last.ret.chi2 = <<0, 1>>
           /\ last.ret.uniformity = <<100, 1>>

\* C11 witness: the histogram of 16 buckets of 8
C11_Witness ==
    /\ last.op = "compute_stats"
    /\ DOMAIN last.arg = 0..15
    /\ \A i \in DOMAIN last.arg : last.arg[i] = 8
    /\ last.ret.sample_count = 128

\* C11 witness within the drawn histograms: three buckets of 4
C11_WitnessSmall ==
    /\ last.op = "compute_stats"
    /\ DOMAIN last.arg = 0..2
    /\ \A i \in DOMAIN last.arg : last.arg[i] = 4

-----------------------------------------------------------------------------
(* Properties of the identity-like scenario                                *)

\* C12: with a = 1, b = 0, k = 4, distribution(0, 128) has 16 counts that
\* all equal 8, and compute_stats on it gives mean 8, stddev 0, chi2 0 and
\* uniformity 100.
C12_IdentityScenarioUniform ==
    cfg = IdentityConfig =>
        /\ (last.op = "distribution_range" /\ last.arg = << <<0, 0>>, <<0, 128>> >>)
              => /\ Size(last.ret) = 16
                 /\ \A i \in DOMAIN last.ret : last.ret[i] = 8
        /\ last.op = "compute_stats"
              => /\ last.ret.mean = <<8, 1>>
                 /\ last.ret.stddev = <<0, 1>>
                 /\ last.ret.chi2 = <<0, 1>>
                 /\ last.ret.uniformity = <<100, 1>>

\* what the engine returns in this scenario: every address of [0, 128) has
\* its top four bits clear, so all 128 samples are counted in bucket 0
C12_AllInBucketZero ==
    (cfg = IdentityConfig /\ last.op = "distribution_range")
        => /\ Size(last.ret) = 16
           /\ last.ret[0] = 128
           /\ \A i \in 1..15 : last.ret[i] = 0

-----------------------------------------------------------------------------
(* Properties of parse_ipv4                                                *)

\* C13: parse_ipv4 rejects (throws, returns no value for) every string that
\* is not exactly four dot-separated tokens, each of them non-empty, made
\* of decimal digits only and with a value in [0, 255].
C13_RejectsMalformed ==
    (last.op = "parse_ipv4" /\ ~IsDottedQuad(last.arg))
        => last.status = "thrown"

\* the four malformed strings "1.2.3", "1.2.3.4.5", "1.2.3.256", "1.2.3."
\* are rejected
C13_ScenarioLinesRejected ==
    (/\ last.op = "parse_ipv4"
     /\ last.arg \in ScenarioLines
     /\ ~IsDottedQuad(last.arg))
        => last.status = "thrown"

\* C14: for four decimal tokens o1.o2.o3.o4 with every octet in [0, 255],
\* parse_ipv4 returns o1*2^24 + o2*2^16 + o3*2^8 + o4; "192.168.0.1" gives
\* 0xC0A80001 and "10.0.0.1" gives 0x0A000001.
C14_DottedQuadValue ==
    last.op = "parse_ipv4" =>
        /\ IsDottedQuad(last.arg) =>
              /\ last.status = "returned"
              /\ Hi(last.ret) = OctetNo(last.arg, 1) * 2^8 + OctetNo(last.arg, 2)
              /\ Lo(last.ret) = OctetNo(last.arg, 3) * 2^8 + OctetNo(last.arg, 4)
        /\ last.arg = <<"1", "9", "2", ".", "1", "6", "8", ".", "0", ".", "1">>
              => last.ret = <<49320, 1>>
        /\ last.arg = <<"1", "0", ".", "0", ".", "0", ".", "1">>
              => last.ret = <<2560, 1>>

\* C14 witness: "192.168.0.1" parsed to 0xC0A80001
C14_Witness ==
    /\ last.op = "parse_ipv4"
    /\ last.arg = <<"1", "9", "2", ".", "1", "6", "8", ".", "0", ".", "1">>
    /\ last.status = "returned"
    /\ last.ret = <<49320, 1>>

\* C14 witness: four different octets at the edges of the range
C14_WitnessEdges ==
    /\ last.op = "parse_ipv4"
    /\ last.arg = <<"2", "5", "5", ".", "0", ".", "0", ".", "2", "5", "5">>
    /\ last.ret = <<65280, 255>>

-----------------------------------------------------------------------------
(* Properties of the command line                                          *)

\* C15: whenever both --preset and --a (respectively --b) are given, the
\* multiplier (offset) of the configuration parse_args returns is the value
\* given with --a (--b), whatever the order of the arguments.
C15_ExplicitOverridesPreset ==
    (/\ last.op = "parse_args"
     /\ last.status = "returned"
     /\ \E i \in 1..(Len(argv) - 1) :
           argv[i] = OptPreset /\ argv[i + 1] \in {NameWang, NameDefault})
        => /\ (\E i \in 1..(Len(argv) - 1) :
                 argv[i] = OptA /\ argv[i + 1] = <<"0", "x", "1", "F">>)
                => opt.cfg.a = <<0, 31>>
           /\ (\E i \in 1..(Len(argv) - 1) :
                 argv[i] = OptB /\ argv[i + 1] = <<"5">>)
                => opt.cfg.b = <<0, 5>>

\* what parse_args does: the arguments act in the order they are written,
\* so that with --a before --preset the multiplier is the preset's
C15_LastOneWins ==
    (/\ last.op = "parse_args"
     /\ last.status = "returned"
     /\ argv = <<OptA, <<"0", "x", "1", "F">>, OptPreset, NameWang,
                 OptDemo, <<"3">> >>)
        => opt.cfg.a = <<10196, 60205>>

\* C16: in demo mode with N > 0 the histogram is built over exactly the
\* integers of [0, min(N, 2^32)): entry i counts the v of that range with
\* bucket_index(v) = i, the reported sample_count is min(N, 2^32), and it
\* agrees with the printed end of the range, also for N >= 2^32.
C16_DemoCountsClampedRange ==
    (last.op = "run_demo" /\ last.arg # <<0, 0, 0, 0>>)
        => LET N       == last.arg
               below   == N[1] = 0 /\ N[2] = 0
               minimum == IF below THEN N ELSE <<0, 1, 0, 0>>
           IN  /\ last.status = "returned"
               /\ FromNat(last.ret.samples) = minimum
               /\ FromNat(last.ret.samples) = last.ret.range_end
               /\ below =>
                     \A i \in DOMAIN hist :
                       hist[i] = Cardinality(
                         { v \in 0..(ToNat(N) - 1) :
                             bucket_index(cfg, Index32(v)) = Index32(i) })

\* what run_demo does for N >= 2^32: the end of the range, cut to 32 bits,
\* is 0, so the range is empty and no sample is counted, while the report
\* prints 2^32 as the end of the range
C16_BeyondWordNoSamples ==
    (/\ last.op = "run_demo"
     /\ last.status = "returned"
     /\ ~(last.arg[1] = 0 /\ last.arg[2] = 0))
        => /\ last.ret.samples = 0
           /\ last.ret.range_end = <<0, 1, 0, 0>>

-----------------------------------------------------------------------------
(* Properties of the statistics: the formulas                              *)

\* C18: for m buckets and n > 0 samples, uniformity is
\* 100 * clamp(1 - max_dev/mean, 0, 1) with mean = n/m and max_dev the
\* largest of |cmax - mean| and |cmin - mean|; it is 100 exactly when all
\* counts are equal, and 0 whenever some bucket is empty or some count is
\* at least twice the mean.  (In integers: with D the largest |m*c - n|,
\* 1 - max_dev/mean = (n - D)/n.)
C18_UniformityFormula ==
    (last.op = "compute_stats" /\ last.ret.sample_count > 0) =>
        LET h == last.arg
            m == Cardinality(DOMAIN h)
            n == RefSum(h, m)
            D == ScaledMaxDev(h, m, n)
            u == last.ret.uniformity
        IN  /\ u[2] > 0
            /\ u[1] * n = (IF D >= n THEN 0 ELSE 100 * (n - D)) * u[2]
            /\ u = <<100, 1>> <=> \A i, j \in DOMAIN h : h[i] = h[j]
            /\ (\E i \in DOMAIN h : h[i] = 0 \/ m * h[i] >= 2 * n)
                  => u = <<0, 1>>

\* C18 witness: counts 1, 2, 3: mean 2, max_dev 1, uniformity 50
C18_Witness ==
    /\ last.op = "compute_stats"
    /\ DOMAIN last.arg = 0..2
    /\ last.arg[0] = 1 /\ last.arg[1] = 2 /\ last.arg[2] = 3
    /\ last.ret.uniformity = <<50, 1>>

\* C18 witness: an empty bucket beside smaller deviations above the mean
C18_WitnessEmptyBucket ==
    /\ last.op = "compute_stats"
    /\ DOMAIN last.arg = 0..2
    /\ last.arg[0] = 0 /\ last.arg[1] = 1 /\ last.arg[2] = 1
    /\ last.ret.uniformity = <<0, 1>>

C19_WitnessRational ==
    /\ last.op = "compute_stats"
    /\ DOMAIN last.arg = 0..1
    /\ last.arg[0] = 0 /\ last.arg[1] = 4
    /\ last.ret.stddev = <<2, 1>>
    /\ last.ret.chi2 = <<4, 1>>

=============================================================================
